---- MODULE Spec2Model ----
(***************************************************************************)
(* License issuance kernel of src/main.py.                                 *)
(*                                                                         *)
(* Each element of Procs is one running instance of the desktop            *)
(* application (LicenseApp).  All instances share the SQLite file          *)
(* licenses.db, modelled by the variable store.  The click handler         *)
(* on_generate_save is split at the points where it touches the shared     *)
(* store or the clock, or blocks in a modal message box:                   *)
(*   idle --Click--> loop --LoopIter*--> build --Build--> commit           *)
(*        --CommitOk | CommitFail--> msg --Dismiss--> idle                 *)
(* A handler left by an unhandled exception is at "raised".                *)
(* Text is modelled as a sequence of one-character strings.                *)
(***************************************************************************)
EXTENDS Integers, Sequences, FiniteSets

\* ------------------------------------------------------------------ bounds
\* Seeds of the entropy source used by the application model: 0..MaxSeed.
MaxSeed == 1
\* A reading of the wall clock is one of 0..MaxTime.
MaxTime == 1
\* Total number of clicks on the save button, over all instances.
MaxRequests == 2

\* The two concurrently running application instances.
Procs == {"a", "b"}

\* ------------------------------------------------------- program constants
\* while tries < 10
MaxTries == 10
\* parts: int = 4
DefaultParts == 4
\* part_len: int = 5
DefaultPartLen == 5
\* 7 <= len(digits)
MinDigits == 7
\* len(digits) <= 15
MaxDigits == 15

\* string.ascii_uppercase
ascii_uppercase ==
  << "A", "B", "C", "D", "E", "F", "G", "H", "I", "J", "K", "L", "M",
     "N", "O", "P", "Q", "R", "S", "T", "U", "V", "W", "X", "Y", "Z" >>

\* string.digits
digits == << "0", "1", "2", "3", "4", "5", "6", "7", "8", "9" >>

\* alphabet = string.ascii_uppercase + string.digits
alphabet == ascii_uppercase \o digits

\* Characters removed by str.strip(): the 29 code points for which
\* str.isspace() holds.  A character that has no literal here is written as
\* the name of its code point.
Whitespace ==
  { "\t", "\n", "U+000B", "\f", "\r", "U+001C", "U+001D", "U+001E", "U+001F",
    " ", "U+0085", "U+00A0", "U+1680", "U+2000", "U+2001", "U+2002",
    "U+2003", "U+2004", "U+2005", "U+2006", "U+2007", "U+2008", "U+2009",
    "U+200A", "U+2028", "U+2029", "U+202F", "U+205F", "U+3000" }

\* `new_key = None`: the empty text stands for None (no key is empty).
NoKey == << >>

\* ------------------------------------------------------------ pure helpers
Range(s) == {s[i] : i \in 1..Len(s)}

\* secrets.choice(seq) where the entropy source yields the index r.
choice(seq, r) == seq[r + 1]

\* sep.join(groups)
RECURSIVE join(_, _)
join(sep, groups) ==
  IF Len(groups) = 0 THEN << >>
  ELSE IF Len(groups) = 1 THEN groups[1]
  ELSE groups[1] \o sep \o join(sep, Tail(groups))

\* A faulty generate_license_key: the groups are joined without separator.
generate_license_key_nosep(parts, part_len, r) ==
  join(<< >>,
       [g \in 1..parts |->
          [c \in 1..part_len |-> choice(alphabet, r[(g - 1) * part_len + c])]])

\* generate_license_key(parts, part_len); r[k] is the k-th draw of the
\* entropy source (an index into the alphabet).
generate_license_key(parts, part_len, r) ==
  LET groups == [g \in 1..parts |->
                   [c \in 1..part_len |->
                      choice(alphabet, r[(g - 1) * part_len + c])]]
  IN  join(<< "-" >>, groups)

\* str.strip(): drop leading and trailing whitespace.
RECURSIVE lstrip(_)
lstrip(s) ==
  IF Len(s) > 0 /\ Head(s) \in Whitespace THEN lstrip(Tail(s)) ELSE s

RECURSIVE rstrip(_)
rstrip(s) ==
  IF Len(s) > 0 /\ s[Len(s)] \in Whitespace
  THEN rstrip(SubSeq(s, 1, Len(s) - 1)) ELSE s

strip(s) == rstrip(lstrip(s))

IsDigit(ch) == ch \in Range(digits)

\* A faulty validate_phone: the length of the raw text is tested.
validate_phone_raw(phone) == MinDigits <= Len(phone) /\ Len(phone) <= MaxDigits

\* validate_phone(phone): re.sub(r"[^0-9]", "", phone), then 7 <= len <= 15.
validate_phone(phone) ==
  LET stripped == SelectSeq(phone, IsDigit)
  IN  MinDigits <= Len(stripped) /\ Len(stripped) <= MaxDigits


\* ------------------------------------------------------------ entropy source
\* A stream of draws of the entropy source: the k-th draw is (a + b*k) mod 36.
Entropy(a, b) ==
  [k \in 1..(DefaultParts * DefaultPartLen) |-> (a + b * k) % Len(alphabet)]

\* The streams the application model draws candidates from (distinct keys).
AppEntropy == {Entropy(s, 7) : s \in 0..MaxSeed}

\* The keys generate_license_key() returns to the application.
AppKeys ==
  {generate_license_key(DefaultParts, DefaultPartLen, r) : r \in AppEntropy}

\* The streams generate_license_key is exercised with on its own.
KeyEntropy ==
  {Entropy(a, b) : a \in 0..(Len(alphabet) - 1), b \in 0..(Len(alphabet) - 1)}

\* ------------------------------------------------------------------- inputs
\* What the user types into name_input and phone_input before a click:
\* a name of a space and a no-break space; a phone of 6 digits in 9
\* characters; a phone of 16 digits; a name padded with a form feed and an
\* ideographic space with a padded phone of 7 digits in 9 characters.
HolderInputs ==
  { << << " ", "U+00A0" >>, << "5", "5", "5", "1", "2", "3", "4" >> >>,
    << << " ", "A", "l", " " >>,
       << "+", "1", "2", "-", "3", "4", "5", " ", "6" >> >>,
    << << "B", "o" >>,
       << "1", "2", "3", "4", "5", "6", "7", "8", "9", "0", "1", "2", "3",
          "4", "5", "6" >> >>,
    << << "\f", "A", "l", "U+3000" >>,
       << "U+2003", "5", "5", "5", "-", "1", "2", "3", "4" >> >> }

\* Lines 135-142 on each of them: the typed texts, the stripped texts, and
\* whether both validations pass.
Submitted ==
  { [name |-> typed[1], ph |-> typed[2],
     full_name |-> strip(typed[1]), phone |-> strip(typed[2]),
     valid |-> strip(typed[1]) # << >> /\ validate_phone(strip(typed[2]))] :
    typed \in HolderInputs }

\* --------------------------------------------------------------- the store
\* A faulty construction that stores the phone as the name and the name as
\* the phone.
License_swapped(full_name, phone, license_key, created_at) ==
  [id |-> 0, full_name |-> phone, phone |-> full_name,
   license_key |-> license_key, created_at |-> created_at]

\* A License object before it is flushed: id is 0 (None) until the INSERT.
License(full_name, phone, license_key, created_at) ==
  [id |-> 0, full_name |-> full_name, phone |-> phone,
   license_key |-> license_key, created_at |-> created_at]

\* `license_obj` before line 163.
NoObj == License(<< >>, << >>, NoKey, 0)

\* session.query(License).filter_by(license_key=candidate).first()
exists(rows, key) == \E i \in 1..Len(rows) : rows[i].license_key = key

\* The table without its uniqueness constraint.
unique_ok_dropped(rows, key) == TRUE

\* license_key = Column(String, nullable=False, unique=True): the constraint
\* the INSERT is checked against.
unique_ok(rows, key) == \A i \in 1..Len(rows) : rows[i].license_key # key

\* id = Column(Integer, primary_key=True): the rowid SQLite assigns.
next_id(rows) ==
  IF Len(rows) = 0 THEN 1
  ELSE 1 + (CHOOSE m \in {rows[i].id : i \in 1..Len(rows)} :
              \A i \in 1..Len(rows) : rows[i].id <= m)

\* A faulty INSERT that overwrites the newest row.
insert_overwrite(rows, obj) ==
  IF Len(rows) = 0 THEN << [obj EXCEPT !.id = 1] >>
  ELSE [rows EXCEPT ![Len(rows)] = [obj EXCEPT !.id = rows[Len(rows)].id]]

\* The INSERT of session.commit(): the row is appended with its new id.
insert(rows, obj) == Append(rows, [obj EXCEPT !.id = next_id(rows)])

\* The orders a listing of n rows can come back in, for every size the
\* table can have (no two rows share a key).
PermsOf ==
  [n \in 0..Cardinality(AppKeys) |->
     {f \in [1..n -> 1..n] : \A i, j \in 1..n : i # j => f[i] # f[j]}]

Perms(n) == PermsOf[n]

\* A faulty listing in ascending order.
order_by_created_at_asc(rows) ==
  { [i \in 1..Len(rows) |-> rows[f[i]]] : f \in
      { g \in Perms(Len(rows)) :
          \A i \in 1..(Len(rows) - 1) :
            rows[g[i]].created_at <= rows[g[i + 1]].created_at } }

\* session.query(License).order_by(License.created_at.desc()).all(): every
\* row once, descending by created_at; the order of equal timestamps is the
\* database's choice, so the result is one of a set.
order_by_created_at_desc(rows) ==
  { [i \in 1..Len(rows) |-> rows[f[i]]] : f \in
      { g \in Perms(Len(rows)) :
          \A i \in 1..(Len(rows) - 1) :
            rows[g[i]].created_at >= rows[g[i + 1]].created_at } }

\* A faulty rollback that leaves the flushed rows in the table.
rollback_keeps_flushed(committed, flushed) == flushed

\* session.rollback(): the table is what it was when the transaction began.
rollback(committed, flushed) == committed

\* A faulty loop condition, off by one.
while_cond_off_by_one(tries) == tries <= MaxTries

\* while tries < 10
while_cond(tries) == tries < MaxTries

\* except Exception: rollback, message box, close, return.
after_commit_error == "msg"

\* ------------------------------------------------------------------- state
VARIABLES
  store,        \* rows of table licenses, in insertion order
  requests,     \* clicks on the save button so far
  pc,           \* position of each instance
  name_input,   \* QLineEdit name_input of each instance
  phone_input,  \* QLineEdit phone_input of each instance
  key_output,   \* QLineEdit key_output of each instance
  table,        \* rows of the open ViewDialog of each instance
  loc,          \* locals of on_generate_save of each instance; tries
                \* only while the handler can still read it
  outcome,      \* message box the handler raised: none, ok, validation,
                \* collision, dberror
  before,       \* history: the store when the running request started
  foreign,      \* history: rows other instances committed since then
  calls,        \* history: calls of the request: sessions opened and
                \* commits; candidates generated and checked by the loop as
                \* long as tries is kept
  rnd,          \* entropy stream handed to generate_license_key on its own
  sample        \* the keys generate_license_key has returned from rnd:
                \* none before the call

vars == << store, requests, pc, name_input, phone_input, key_output,
           table, loc, outcome, before, foreign, calls, rnd, sample >>

NoLocals ==
  [full_name |-> << >>, phone |-> << >>, session |-> "closed", tries |-> 0,
   new_key |-> NoKey, license_obj |-> NoObj]

NoCalls == [sessions |-> 0, gen |-> 0, checks |-> 0, commits |-> 0]

\* Line 157, break: the loop is left with a free key.  tries is not read
\* again (lines 158-180), and the frame is kept without it.
leave_loop(l, key) ==
  [full_name |-> l.full_name, phone |-> l.phone, session |-> l.session,
   new_key |-> key, license_obj |-> l.license_obj]

\* The calls of a request that has left the loop with a free key.
calls_after_loop(c) == [sessions |-> c.sessions, commits |-> c.commits]

\* tries of p is kept: p has not left the loop with a key.
Counting(p) == "tries" \in DOMAIN loc[p]

\* The handler of p is between its entry and its message box.
InHandler(p) == pc[p] \in {"loop", "build", "commit"}

\* The request of p has started and its message box is not yet dismissed.
InRequest(p) == pc[p] \in {"loop", "build", "commit", "msg"}

Init ==
  /\ store = << >>
  /\ requests = 0
  /\ pc = [p \in Procs |-> "idle"]
  /\ name_input = [p \in Procs |-> << >>]
  /\ phone_input = [p \in Procs |-> << >>]
  /\ key_output = [p \in Procs |-> NoKey]
  /\ table = [p \in Procs |-> << >>]
  /\ loc = [p \in Procs |-> NoLocals]
  /\ outcome = [p \in Procs |-> "none"]
  /\ before = [p \in Procs |-> << >>]
  /\ foreign = [p \in Procs |-> << >>]
  /\ calls = [p \in Procs |-> NoCalls]
  /\ rnd = Entropy(0, 0)
  /\ sample = {}

\* ----------------------------------------------------------------- actions
\* The user fills the form and clicks save: on_generate_save, lines 135-148.
Click(p) ==
  /\ pc[p] = "idle"
  /\ requests < MaxRequests
  /\ requests' = requests + 1
  /\ \E typed \in Submitted :
       LET name == typed.name
           ph == typed.ph
           full_name == typed.full_name
           phone == typed.phone
           valid == typed.valid
       IN  /\ name_input' = [name_input EXCEPT ![p] = name]
           /\ phone_input' = [phone_input EXCEPT ![p] = ph]
           /\ loc' = [loc EXCEPT ![p] =
                        [NoLocals EXCEPT
                           !.full_name = full_name, !.phone = phone,
                           !.session = IF valid THEN "open" ELSE "closed"]]
           /\ pc' = [pc EXCEPT ![p] = IF valid THEN "loop" ELSE "msg"]
           /\ outcome' = [outcome EXCEPT ![p] =
                            IF valid THEN "none" ELSE "validation"]
           /\ calls' = [calls EXCEPT ![p] =
                          [NoCalls EXCEPT
                             !.sessions = IF valid THEN 1 ELSE 0]]
  /\ before' = [before EXCEPT ![p] = store]
  /\ foreign' = [foreign EXCEPT ![p] = << >>]
  /\ UNCHANGED << store, key_output, table, rnd, sample >>

\* One iteration of the generate/check loop, lines 150-156, and, when the
\* loop ends without a key, lines 158-159.
LoopIter(p) ==
  /\ pc[p] = "loop"
  /\ while_cond(loc[p].tries)
  /\ \E candidate \in AppKeys :
       LET found == ~exists(store, candidate)
           tries == IF found THEN loc[p].tries ELSE loc[p].tries + 1
           again == ~found /\ while_cond(tries)
       IN  /\ loc' = [loc EXCEPT ![p] =
                        IF found THEN leave_loop(@, candidate)
                        ELSE [@ EXCEPT !.tries = tries]]
           /\ calls' = [calls EXCEPT ![p] =
                          IF found THEN calls_after_loop(@)
                          ELSE [@ EXCEPT !.gen = @ + 1, !.checks = @ + 1]]
           /\ pc' = [pc EXCEPT ![p] =
                       IF found THEN "build"
                       ELSE IF again THEN "loop" ELSE "msg"]
           /\ outcome' = [outcome EXCEPT ![p] =
                            IF found \/ again THEN "none" ELSE "collision"]
  /\ UNCHANGED << store, requests, name_input, phone_input, key_output,
                  table, before, foreign, rnd, sample >>

\* Lines 151-152: a candidate is generated and the query raises (database
\* locked, I/O error).  The query is in no try: the exception leaves the
\* handler; no message box is raised and the session is not closed.
QueryRaises(p) ==
  /\ pc[p] = "loop"
  /\ while_cond(loc[p].tries)
  /\ pc' = [pc EXCEPT ![p] = "raised"]
  /\ loc' = [loc EXCEPT ![p] = [NoLocals EXCEPT !.session = "open"]]
  /\ before' = [before EXCEPT ![p] = << >>]
  /\ foreign' = [foreign EXCEPT ![p] = << >>]
  /\ calls' = [calls EXCEPT ![p] = NoCalls]
  /\ UNCHANGED << store, requests, name_input, phone_input, key_output,
                  table, outcome, rnd, sample >>

\* Lines 163-164: the record is built, stamped with the clock, and added to
\* the session.  datetime.utcnow() is the wall clock: a reading may be
\* earlier than a previous one (the clock can be set back).
Build(p) ==
  /\ pc[p] = "build"
  /\ \E utcnow \in 0..MaxTime :
       loc' = [loc EXCEPT ![p].license_obj =
                 License(loc[p].full_name, loc[p].phone, loc[p].new_key,
                         utcnow)]
  /\ pc' = [pc EXCEPT ![p] = "commit"]
  /\ UNCHANGED << store, requests, name_input, phone_input, key_output,
                  table, outcome, before, foreign, calls, rnd, sample >>

\* Lines 166 and 173-176: the commit succeeds (the INSERT gives license_obj
\* the id of its row), the session is closed, the key is shown and the
\* information box is raised.
CommitOk(p) ==
  /\ pc[p] = "commit"
  /\ unique_ok(store, loc[p].license_obj.license_key)
  /\ store' = insert(store, loc[p].license_obj)
  /\ loc' = [loc EXCEPT ![p].session = "closed",
                         ![p].license_obj = store'[Len(store')]]
  /\ key_output' = [key_output EXCEPT ![p] = loc[p].new_key]
  /\ outcome' = [outcome EXCEPT ![p] = "ok"]
  /\ pc' = [pc EXCEPT ![p] = "msg"]
  /\ calls' = [calls EXCEPT ![p].commits = @ + 1]
  /\ foreign' = [q \in Procs |->
                   IF q # p /\ InRequest(q)
                   THEN Append(foreign[q], store'[Len(store')])
                   ELSE foreign[q]]
  /\ UNCHANGED << requests, name_input, phone_input, table, before,
                  rnd, sample >>

\* Lines 166-169: the commit raises, the session is rolled back and the error
\* box is raised.  Either the INSERT raises (the key is taken by now, or the
\* database is locked or cannot be written) and license_obj gets no id; or
\* the INSERT of a free key is flushed, giving license_obj the id of its row,
\* and the COMMIT raises: the rollback removes the row and leaves the id in
\* the object.
CommitFail(p) ==
  /\ pc[p] = "commit"
  /\ \E insert_raises \in BOOLEAN :
       LET ok == unique_ok(store, loc[p].license_obj.license_key)
           flushed == IF insert_raises THEN store
                      ELSE insert(store, loc[p].license_obj)
       IN  /\ ~ok => insert_raises
           /\ store' = rollback(store, flushed)
           /\ loc' = [loc EXCEPT ![p].license_obj =
                        IF insert_raises THEN @ ELSE flushed[Len(flushed)]]
  /\ outcome' = [outcome EXCEPT ![p] = "dberror"]
  /\ pc' = [pc EXCEPT ![p] = after_commit_error]
  /\ calls' = [calls EXCEPT ![p].commits = @ + 1]
  /\ UNCHANGED << requests, name_input, phone_input, key_output,
                  table, before, foreign, rnd, sample >>

\* The message box is dismissed and the handler returns: lines 140, 144,
\* 160-161, 170-171, 179-180.
Dismiss(p) ==
  /\ pc[p] = "msg"
  /\ name_input' = [name_input EXCEPT ![p] =
                      IF outcome[p] = "ok" THEN << >> ELSE @]
  /\ phone_input' = [phone_input EXCEPT ![p] =
                       IF outcome[p] = "ok" THEN << >> ELSE @]
  /\ loc' = [loc EXCEPT ![p] = NoLocals]
  /\ outcome' = [outcome EXCEPT ![p] = "none"]
  /\ pc' = [pc EXCEPT ![p] = "idle"]
  /\ before' = [before EXCEPT ![p] = << >>]
  /\ foreign' = [foreign EXCEPT ![p] = << >>]
  /\ calls' = [calls EXCEPT ![p] = NoCalls]
  /\ UNCHANGED << store, requests, key_output, table, rnd, sample >>

\* on_view: the dialog is opened and load_data fills its table.
View(p) ==
  /\ pc[p] = "idle"
  /\ table' \in {[table EXCEPT ![p] = rows] :
                   rows \in order_by_created_at_desc(store)}
  /\ pc' = [pc EXCEPT ![p] = "view"]
  /\ UNCHANGED << store, requests, name_input, phone_input, key_output,
                  loc, outcome, before, foreign, calls, rnd, sample >>

\* on_view: the query of load_data raises (line 206, in no try): the
\* exception leaves on_view, no dialog is shown and the session of line 205
\* is not closed.
ViewRaises(p) ==
  /\ pc[p] = "idle"
  /\ pc' = [pc EXCEPT ![p] = "raised"]
  /\ loc' = [loc EXCEPT ![p].session = "open"]
  /\ UNCHANGED << store, requests, name_input, phone_input, key_output,
                  table, outcome, before, foreign, calls, rnd, sample >>

\* The event loop goes on after the unhandled exception (an instance the
\* exception terminates stays at "raised").
Recover(p) ==
  /\ pc[p] = "raised"
  /\ pc' = [pc EXCEPT ![p] = "idle"]
  /\ loc' = [loc EXCEPT ![p] = NoLocals]
  /\ UNCHANGED << store, requests, name_input, phone_input, key_output,
                  table, outcome, before, foreign, calls, rnd, sample >>

\* The dialog is closed.
CloseView(p) ==
  /\ pc[p] = "view"
  /\ table' = [table EXCEPT ![p] = << >>]
  /\ pc' = [pc EXCEPT ![p] = "idle"]
  /\ UNCHANGED << store, requests, name_input, phone_input, key_output,
                  loc, outcome, before, foreign, calls, rnd, sample >>

\* The steps the running handler takes by itself.
HandlerStep(p) ==
  LoopIter(p) \/ QueryRaises(p) \/ Build(p) \/ CommitOk(p) \/ CommitFail(p)

Next ==
  \/ \E p \in Procs : Click(p)
  \/ \E p \in Procs : LoopIter(p)
  \/ \E p \in Procs : QueryRaises(p)
  \/ \E p \in Procs : Build(p)
  \/ \E p \in Procs : CommitOk(p)
  \/ \E p \in Procs : CommitFail(p)
  \/ \E p \in Procs : Dismiss(p)
  \/ \E p \in Procs : View(p)
  \/ \E p \in Procs : CloseView(p)
  \/ \E p \in Procs : ViewRaises(p)
  \/ \E p \in Procs : Recover(p)

Spec == Init /\ [][Next]_vars

\* generate_license_key on its own: the entropy stream is the input.
KeyInit ==
  /\ store = << >>
  /\ requests = 0
  /\ pc = [p \in Procs |-> "idle"]
  /\ name_input = [p \in Procs |-> << >>]
  /\ phone_input = [p \in Procs |-> << >>]
  /\ key_output = [p \in Procs |-> NoKey]
  /\ table = [p \in Procs |-> << >>]
  /\ loc = [p \in Procs |-> NoLocals]
  /\ outcome = [p \in Procs |-> "none"]
  /\ before = [p \in Procs |-> << >>]
  /\ foreign = [p \in Procs |-> << >>]
  /\ calls = [p \in Procs |-> NoCalls]
  /\ rnd \in KeyEntropy
  /\ sample = {}

Generate ==
  /\ sample = {}
  /\ sample' = {generate_license_key(DefaultParts, DefaultPartLen, rnd)}
  /\ UNCHANGED << store, requests, pc, name_input, phone_input,
                  key_output, table, loc, outcome, before, foreign, calls,
                  rnd >>

KeyNext == Generate

KeySpec == KeyInit /\ [][KeyNext]_vars

\* ================================================================= claims
Failures == {"validation", "collision", "dberror"}

\* The store is what it was when the request of p started, followed by the
\* rows other instances committed since: p has written nothing.
NothingWritten(p) == store = before[p] \o foreign[p]

\* s without its i-th element.
RemoveAt(s, i) == SubSeq(s, 1, i - 1) \o SubSeq(s, i + 1, Len(s))

\* ---- C1
\* C1: in every reachable state no two rows of the store have the same key,
\* whatever the interleaving of the instances' checks and commits.
C1_KeysUnique ==
  \A i, j \in 1..Len(store) :
    i # j => store[i].license_key # store[j].license_key

\* Two requests saw the same key free; one committed it, the other's commit
\* was refused.
C1_Witness ==
  \E p \in Procs :
    /\ pc[p] = "msg"
    /\ outcome[p] = "dberror"
    /\ \E k \in 1..Len(foreign[p]) :
         foreign[p][k].license_key = loc[p].new_key

\* ---- C2
\* C2: a request whose every existence check found the candidate present
\* generates and checks exactly 10 candidates, then ends collision-exhausted
\* without a commit attempt and without writing a row; and a request ends
\* collision-exhausted only in that way.
C2_CollisionExhausted ==
  \A p \in Procs :
    /\ (InRequest(p) /\ Counting(p) /\ loc[p].tries >= 10)
         => (pc[p] = "msg" /\ outcome[p] = "collision")
    /\ (pc[p] = "loop")
         => /\ Counting(p)
            /\ loc[p].tries < 10
            /\ calls[p].gen = loc[p].tries
            /\ calls[p].checks = loc[p].tries
    /\ (pc[p] = "msg" /\ outcome[p] = "collision")
         => /\ Counting(p)
            /\ calls[p].gen = 10
            /\ calls[p].checks = 10
            /\ loc[p].tries = 10
            /\ loc[p].new_key = NoKey
            /\ calls[p].commits = 0
            /\ NothingWritten(p)

\* A request found the only row's key ten times over.
C2_Witness ==
  \E p \in Procs :
    /\ pc[p] = "msg"
    /\ outcome[p] = "collision"
    /\ Len(store) >= 1
    /\ calls[p].checks = 10

\* ---- C3
\* C3: a request whose commit failed reports the database error, shows no
\* new key, and leaves the store as it was before the request (apart from
\* rows of other instances).
C3_CommitFailure ==
  \A p \in Procs :
    /\ (pc[p] = "msg" /\ calls[p].commits > 0 /\ NothingWritten(p))
         => (outcome[p] = "dberror" /\ key_output[p] # loc[p].new_key)
    /\ (pc[p] = "msg" /\ outcome[p] = "dberror")
         => (calls[p].commits > 0 /\ NothingWritten(p))

\* A commit failed on a free key (a database error) with rows in the store.
C3_Witness ==
  \E p \in Procs :
    /\ pc[p] = "msg"
    /\ outcome[p] = "dberror"
    /\ Len(before[p]) >= 1
    /\ ~exists(store, loc[p].new_key)

\* ---- C4
\* The name is empty once trimmed, or the phone has fewer than 7 or more
\* than 15 digits.
InvalidHolder(name, ph) ==
  LET n == Cardinality({i \in 1..Len(ph) : ph[i] \in Range(digits)})
  IN  (\A i \in 1..Len(name) : name[i] \in Whitespace) \/ n < 7 \/ n > 15

\* C4: a request with an invalid holder ends with the validation error
\* before a session is opened, a candidate generated or an existence check
\* made, and leaves the store unchanged; requests with a valid holder do not
\* end that way.
C4_ValidationFirst ==
  \A p \in Procs :
    InRequest(p) =>
      IF InvalidHolder(name_input[p], phone_input[p])
      THEN /\ pc[p] = "msg"
           /\ outcome[p] = "validation"
           /\ calls[p] = NoCalls
           /\ loc[p].session = "closed"
           /\ NothingWritten(p)
      ELSE outcome[p] # "validation"

\* A phone of nine characters but six digits was refused while the store
\* held a row.
C4_Witness ==
  \E p \in Procs :
    /\ pc[p] = "msg"
    /\ outcome[p] = "validation"
    /\ Len(phone_input[p]) = 9
    /\ Len(strip(name_input[p])) > 0
    /\ Len(store) >= 1

\* ---- C5
\* C5: created_at is non-decreasing along the insertion order of the store.
C5_CreatedAtFollowsInsertion ==
  \A i, j \in 1..Len(store) :
    i < j => store[i].created_at <= store[j].created_at

\* ---- C6
\* C6: no step removes or changes a row of the store: every row stays at
\* its place with the same id, key, created_at and holder.
C6_AppendOnly ==
  [][ /\ Len(store') >= Len(store)
      /\ \A i \in 1..Len(store) : store'[i] = store[i] ]_vars

\* Two rows are stored, and an open dialog lists both.
C6_Witness ==
  /\ Len(store) = 2
  /\ \E p \in Procs : pc[p] = "view" /\ Len(table[p]) = 2

\* ---- C7
\* The characters a key may hold.
KeyChars ==
  { "A", "B", "C", "D", "E", "F", "G", "H", "I", "J", "K", "L", "M", "N",
    "O", "P", "Q", "R", "S", "T", "U", "V", "W", "X", "Y", "Z", "0", "1",
    "2", "3", "4", "5", "6", "7", "8", "9" }

WellFormedKey(k) ==
  /\ Len(k) = 23
  /\ \A i \in 1..Len(k) :
       IF i \in {6, 12, 18} THEN k[i] = "-" ELSE k[i] \in KeyChars

\* C7: every key generate_license_key returns with its default parameters
\* has 23 characters: 4 groups of 5 characters of A-Z and 0-9, with "-" at
\* positions 6, 12 and 18 and nowhere else.
C7_KeyFormat == \A k \in sample : WellFormedKey(k)

\* A key was generated that begins with the last character of the alphabet
\* and ends with the first.
C7_Witness ==
  \E k \in sample :
    /\ k[1] = "9"
    /\ k[Len(k)] = "A"

\* ---- C8
\* t holds every row of rows exactly once.
IsPermutation(t, rows) ==
  /\ Len(t) = Len(rows)
  /\ \E f \in Perms(Len(rows)) : \A i \in 1..Len(rows) : t[i] = rows[f[i]]

\* C8: load_data fills the table with every row of the store exactly once,
\* in non-increasing created_at order, and leaves the store unchanged.
C8_Listing ==
  [][ \A p \in Procs :
        (pc[p] # "view" /\ pc'[p] = "view") =>
          /\ IsPermutation(table'[p], store)
          /\ \A i \in 1..(Len(table'[p]) - 1) :
               table'[p][i].created_at >= table'[p][i + 1].created_at
          /\ store' = store ]_vars

\* Two rows with different timestamps are listed, the newer first.
C8_Witness ==
  \E p \in Procs :
    /\ pc[p] = "view"
    /\ Len(table[p]) = 2
    /\ table[p][1].created_at > table[p][2].created_at
    /\ table[p][1].id > table[p][2].id

\* ---- C9
Outcomes == {"ok", "validation", "collision", "dberror"}

\* What is left of the handler of p: the commit, the build before it, and
\* the loop rounds before that.
Remaining(p) ==
  CASE pc[p] = "loop" -> 2 + (10 - loc[p].tries)
    [] pc[p] = "build" -> 2
    [] pc[p] = "commit" -> 1
    [] OTHER -> 0

C9_AtMostOneCommit ==
  \A p \in Procs :
    /\ calls[p].commits <= 1
    /\ Counting(p) =>
         /\ calls[p].gen <= 10
         /\ calls[p].checks = calls[p].gen
         /\ loc[p].tries = calls[p].gen
    /\ InHandler(p) =>
         /\ calls[p].commits = 0
         /\ outcome[p] = "none"
         /\ Remaining(p) >= 1
         /\ ENABLED HandlerStep(p)
    /\ pc[p] = "msg" =>
         /\ outcome[p] \in Outcomes
         /\ (calls[p].commits = 1) <=> (loc[p].new_key # NoKey)
         /\ (calls[p].commits = 1) <=> (outcome[p] \in {"ok", "dberror"})

\* C9: a request attempts at most one commit: exactly one when the loop
\* found a free candidate, none after a validation error or an exhausted
\* loop; nothing is generated or committed after the commit attempt; the
\* loop makes at most 10 attempts; and every request ends with one of the
\* four outcomes: the running handler can always take a step, and each of
\* its steps brings it nearer to its message box.
C9_SingleCommitAndTermination ==
  /\ []C9_AtMostOneCommit
  /\ [][ \A p \in Procs :
           (InHandler(p) /\ << pc'[p], loc'[p], calls'[p] >>
                             # << pc[p], loc[p], calls[p] >>) =>
             /\ Remaining(p)' < Remaining(p)
             /\ pc'[p] \in {"loop", "build", "commit", "msg"} ]_vars

\* ---- C10
\* The row of the store the successful request of p wrote, if any: one row
\* more than before, carrying the displayed key and the submitted holder.
WroteOneRow(p) ==
  \E i \in 1..Len(store) :
    /\ RemoveAt(store, i) = before[p] \o foreign[p]
    /\ store[i].license_key = key_output[p]
    /\ store[i].full_name = strip(name_input[p])
    /\ store[i].phone = strip(phone_input[p])
    /\ WellFormedKey(key_output[p])

\* C10: when a request reports success the store holds exactly one row more
\* than before, with the displayed key and the submitted (trimmed) name and
\* phone; the handler changes key_output only to a key it has committed, and
\* changes the inputs only by clearing them after a success.
C10_SuccessShowsCommittedKey ==
  /\ [](\A p \in Procs : (pc[p] = "msg" /\ outcome[p] = "ok") => WroteOneRow(p))
  /\ [][ \A p \in Procs :
           /\ key_output'[p] # key_output[p] =>
                (pc'[p] = "msg" /\ outcome'[p] = "ok"
                   /\ exists(store', key_output'[p]))
           /\ (InRequest(p) /\ << name_input'[p], phone_input'[p] >>
                                 # << name_input[p], phone_input[p] >>) =>
                (outcome[p] = "ok" /\ WroteOneRow(p)
                   /\ name_input'[p] = << >> /\ phone_input'[p] = << >>)
           /\ (pc[p] = "msg" /\ pc'[p] = "idle" /\ outcome[p] = "ok") =>
                (name_input'[p] = << >> /\ phone_input'[p] = << >>) ]_vars

\* A request succeeded after another instance committed a row during it.
C10_Witness ==
  \E p \in Procs :
    /\ pc[p] = "msg"
    /\ outcome[p] = "ok"
    /\ Len(foreign[p]) = 1
    /\ store[Len(store)].license_key = key_output[p]

====
